---- MODULE Spec2Model ----
(***************************************************************************)
(* soong_build (cmd/soong_build/main.go): one invocation of the process,   *)
(* from flag parsing to exit.  The process is sequential; its position is  *)
(* the list of calls still to be made (todo).  Calls into the analysis     *)
(* pipeline, the code generator, the symlink forest planner and the        *)
(* operating system are steps whose results are drawn from small sets.     *)
(***************************************************************************)
EXTENDS Naturals, Sequences, FiniteSets, TLC

VARIABLES
    todo,                 \* calls still to be made, first one next
    status,               \* "running", "done" (exit 0) or "failed" (exit 1 / panic)
    args,                 \* the command line given to flag.Parse
    bp2buildMarker,       \* package-level flag variables of main.go
    bazelQueryViewDir,
    bazelApiBp2buildDir,
    moduleGraphFile,
    docFile,
    availableEnvFile,
    usedEnvFile,
    cmdlineArgs,          \* bootstrap.Args
    availableEnv,         \* result of parseAvailableEnv
    configuration,        \* android.Config
    logDir,
    extraNinjaDeps,
    bootstrapDeps,        \* what bootstrap.RunBlueprint returned
    ninjaDeps,            \* the dependency list of the chosen activity
    hook,                 \* BeforePrepareBuildActionsHook registered on ctx
    finalOutputFile,      \* result of doChosenActivity
    fs,                   \* files: path -> [content, mtime]
    now,                  \* time.Now()
    trace,                \* calls made so far, in order
    unreadable,           \* paths whose read fails with an error other than ENOENT
    srcTree,              \* the source tree: relative paths under topDir
    genTree,              \* the generated tree: relative paths under the generated root
    excludes,             \* relative paths excluded from the symlink forest
    forest,               \* the symlink forest: pairs <<relative path, entry>>
    plantedWith,          \* <<exclude set>> of the last planting, <<>> before it
    previous,             \* the symlink forest before the last planting
    outDir,               \* flag --out
    bazelList,            \* lines of the finder's bazel.list file
    fileInfo,             \* os.Stat of the listed paths: "dir" or "file"; absent: error
    keptDirs,             \* directories whose build files the allowlist keeps
    existingBazelRelatedFiles,
    pathsToIgnoredBuildFiles,
    excludeList           \* the excludes handed to PlantSymlinkForest

flagVars == <<bp2buildMarker, bazelQueryViewDir, bazelApiBp2buildDir,
              moduleGraphFile, docFile, availableEnvFile, usedEnvFile,
              cmdlineArgs, outDir>>

forestVars == <<srcTree, genTree, excludes, forest, plantedWith, previous>>

excludeVars == <<bazelList, fileInfo, keptDirs, existingBazelRelatedFiles,
                 pathsToIgnoredBuildFiles, excludeList>>

\* what the process finds around it and leaves behind in the workspace
worldVars == <<unreadable, forestVars, excludeVars>>

vars == <<todo, status, worldVars, args, flagVars, availableEnv, configuration, logDir,
          extraNinjaDeps, bootstrapDeps, ninjaDeps, hook, finalOutputFile, fs, now, trace>>

----------------------------------------------------------------------------
(* Bounds *)

\* number of paths the analysis pipeline may report as read
MaxPipelineDeps == 2

\* number of mode flags given together on the command line of a whole run
MaxModeFlags == 2

----------------------------------------------------------------------------
(* Paths and the command line *)

topDir == "/src"
soongOutDir == "out/soong"
moduleActionsFile == "out/soong/module-actions.json"
ModuleListFile == "out/.module_paths/Android.bp.list"
OutFileDefault == "build.ninja"

\* shared.JoinPath for a relative rest
JoinPath(base, rest) == base \o "/" \o rest

NoArgs == "none"

\* the command lines considered: every mode flag given or not
ArgSets ==
    [bp2build_marker        : {"", "out/soong/bp2build_workspace_marker"},
     bazel_queryview_dir    : {"", "out/soong/queryview"},
     bazel_api_bp2build_dir : {"", "out/soong/api_export"},
     module_graph_file      : {"", "out/soong/module-graph.json"},
     soong_docs             : {"", "out/soong/docs/soong_build.html"},
     bazel_mode             : BOOLEAN,
     bazel_mode_staging     : BOOLEAN,
     bazel_mode_dev         : BOOLEAN,
     available_env          : {"", "out/soong/soong.environment.available"},
     used_env               : {"", "out/soong/soong.environment.used"},
     out                    : {"out"}]

B2N(b) == IF b THEN 1 ELSE 0

NumModeFlags(a) ==
    B2N(a.bp2build_marker # "") + B2N(a.bazel_queryview_dir # "")
    + B2N(a.bazel_api_bp2build_dir # "") + B2N(a.module_graph_file # "")
    + B2N(a.soong_docs # "") + B2N(a.bazel_mode) + B2N(a.bazel_mode_staging)
    + B2N(a.bazel_mode_dev)

\* the command lines whole runs are followed for
CommandLines == {a \in ArgSets : NumModeFlags(a) <= MaxModeFlags}

----------------------------------------------------------------------------
(* Environment *)

\* the variables, in the order sort.Strings gives them
EnvVarOrder == <<"ALLOW_MISSING_DEPENDENCIES", "BAZEL_DEPS_FILE",
                 "BP2BUILD_VERBOSE", "LOG_DIR">>

EnvVars == {EnvVarOrder[i] : i \in DOMAIN EnvVarOrder}

\* contents of soong.environment.available; "" is a variable that is not set
AvailableEnvs ==
    {e \in [EnvVars -> {"", "true", "out/bazel.deps", "out/dist/logs"}] :
        /\ e["ALLOW_MISSING_DEPENDENCIES"] \in {"", "true"}
        /\ e["BAZEL_DEPS_FILE"] = "out/bazel.deps"
        /\ e["BP2BUILD_VERBOSE"] = ""
        /\ e["LOG_DIR"] \in {"", "out/dist/logs"}}

NoEnvDeps == [v \in {} |-> ""]

\* Config.Getenv: the first read of a variable records its value
Getenv(c, key) ==
    IF key \in DOMAIN c.envDeps
    THEN c
    ELSE [c EXCEPT !.envDeps = [v \in DOMAIN c.envDeps \cup {key} |->
                                   IF v = key THEN c.env[key] ELSE c.envDeps[v]]]

GetenvValue(c, key) ==
    IF key \in DOMAIN c.envDeps THEN c.envDeps[key] ELSE c.env[key]

RECURSIVE EnvLines(_, _)
EnvLines(deps, i) ==
    IF i > Len(EnvVarOrder) THEN <<>>
    ELSE (IF EnvVarOrder[i] \in DOMAIN deps
          THEN <<EnvVarOrder[i] \o "=" \o deps[EnvVarOrder[i]]>>
          ELSE <<>>) \o EnvLines(deps, i + 1)

\* shared.EnvFileContents: one entry per recorded variable, sorted by name
EnvFileContents(deps) == EnvLines(deps, 1)

----------------------------------------------------------------------------
(* Files *)

Exists(path) == path \in DOMAIN fs

WriteFile(files, path, data, t) ==
    [p \in DOMAIN files \cup {path} |->
        IF p = path THEN [content |-> data, mtime |-> t] ELSE files[p]]

\* touch opening the file with O_TRUNC
TouchFile_Truncates(files, path, t) ==
    [p \in DOMAIN files \cup {path} |->
        IF p = path THEN [content |-> <<>>, mtime |-> t] ELSE files[p]]

\* touch: O_APPEND|O_CREATE, then Chtimes(now)
TouchFile(files, path, t) ==
    [p \in DOMAIN files \cup {path} |->
        IF p = path
        THEN [content |-> IF path \in DOMAIN files THEN files[path].content ELSE <<>>,
              mtime |-> t]
        ELSE files[p]]

\* what a used-environment file left by an earlier run may hold
PriorTracked == {{"ALLOW_MISSING_DEPENDENCIES"},
                 {"ALLOW_MISSING_DEPENDENCIES", "BAZEL_DEPS_FILE"},
                 {"ALLOW_MISSING_DEPENDENCIES", "BP2BUILD_VERBOSE", "LOG_DIR"}}

PriorSnapshots ==
    {EnvFileContents([v \in d |-> e[v]]) : e \in AvailableEnvs, d \in PriorTracked}

UsedEnvPath == JoinPath(topDir, "out/soong/soong.environment.used")

NoFiles == [p \in {} |-> [content |-> <<>>, mtime |-> 0]]

InitialFiles ==
    {NoFiles} \cup {WriteFile(NoFiles, UsedEnvPath, s, 0) : s \in PriorSnapshots}

\* a used environment file that cannot be read; what it holds is not seen
UnreadableSnapshot ==
    WriteFile(NoFiles, UsedEnvPath, <<"ALLOW_MISSING_DEPENDENCIES=">>, 0)

----------------------------------------------------------------------------
(* The symlink forest (bp2build.PlantSymlinkForest) *)

\* number of paths in an exclude list
MaxExcludes == 1

\* the relative paths a source tree or a generated tree may hold
Paths == {"a", "a/b.txt", "a/c", "a/c/d.txt", "e.txt"}

Root == "."

Parent(p) ==
    CASE p = "a/b.txt" -> "a"
      [] p = "a/c" -> "a"
      [] p = "a/c/d.txt" -> "a/c"
      [] OTHER -> Root

IsDir(p) == p \in {"a", "a/c"}

RECURSIVE Ancestors(_)
Ancestors(p) ==
    IF Parent(p) = Root THEN {} ELSE {Parent(p)} \cup Ancestors(Parent(p))

AtOrBeneath(p, q) == p = q \/ q \in Ancestors(p)

\* a tree holds the directories above each of its paths
Trees == {t \in SUBSET Paths : \A p \in t : Ancestors(p) \subseteq t}

ExcludeSets == {x \in SUBSET Paths : Cardinality(x) <= MaxExcludes}

generatedRoot == JoinPath(soongOutDir, "bp2build")

RealPath(p) == JoinPath(topDir, p)

GenPath(p) == JoinPath(JoinPath(topDir, generatedRoot), p)

Link(p, target) == [path |-> p, target |-> target]

Mkdir(p) == [path |-> p, target |-> "dir"]

\* a directory needs selective merging when it is in both trees or when an
\* excluded path lies beneath it; any other directory is linked whole
NeedsMerge(d, real, gen, excl) ==
    \/ d \in real /\ d \in gen
    \/ \E q \in excl : d \in Ancestors(q)

\* the entries planted for directory d: excluded children are skipped,
\* directories that need merging are created and walked, a generated entry
\* is linked in preference to the real one, anything else is linked to the
\* real entry
RECURSIVE PlantDir(_, _, _, _)
PlantDir(d, real, gen, excl) ==
    UNION {
        IF c \in excl THEN {}
        ELSE IF IsDir(c) /\ NeedsMerge(c, real, gen, excl)
             THEN {Mkdir(c)} \cup PlantDir(c, real, gen, excl)
        ELSE IF c \in gen THEN {Link(c, GenPath(c))}
        ELSE {Link(c, RealPath(c))}
        : c \in {p \in real \cup gen : Parent(p) = d} }

\* a planting that adds to what the target root already holds
RemoveAll_KeepsEntries(old) == old

\* the target root is cleared before the forest is rebuilt
RemoveAll(old) == {}

PlantForest(old, real, gen, excl) ==
    RemoveAll(old) \cup PlantDir(Root, real, gen, excl)

----------------------------------------------------------------------------
(* The exclude list of the symlink forest *)

\* number of lines in the finder's bazel.list file
MaxListLines == 2

\* strings.HasPrefix
HasPrefix(s, prefix) ==
    Len(s) >= Len(prefix) /\ SubSeq(s, 1, Len(prefix)) = prefix

\* position of the last "/" of s at or before i, 0 when there is none
RECURSIVE LastSlash(_, _)
LastSlash(s, i) ==
    IF i = 0 THEN 0
    ELSE IF SubSeq(s, i, i) = "/" THEN i
    ELSE LastSlash(s, i - 1)

\* filepath.Base and filepath.Dir of a clean relative path
Base(s) == SubSeq(s, LastSlash(s, Len(s)) + 1, Len(s))

Dir(s) ==
    IF LastSlash(s, Len(s)) = 0 THEN "."
    ELSE SubSeq(s, 1, LastSlash(s, Len(s)) - 1)

\* the paths the finder may have listed
FinderPaths == {"WORKSPACE", "BUILD", "BUILD.bazel", "a/BUILD", "a/rules.bzl",
                "build/bazel/BUILD", "build/bazel_common_rules/BUILD",
                "prebuilts/clang/BUILD.bazel"}

RECURSIVE SeqsUpTo(_, _)
SeqsUpTo(set, n) ==
    IF n = 0 THEN {<<>>}
    ELSE SeqsUpTo(set, n - 1)
         \cup {Append(q, x) : q \in {r \in SeqsUpTo(set, n - 1) : Len(r) = n - 1},
                              x \in set}

\* contents of bazel.list: a path or nothing on each line
BazelLists == SeqsUpTo(FinderPaths \cup {""}, MaxListLines)

\* what os.Stat finds: every listed path a file, a/BUILD gone, a/BUILD a directory
FileInfos ==
    {[p \in FinderPaths |-> "file"],
     [p \in FinderPaths \ {"a/BUILD"} |-> "file"],
     [p \in FinderPaths |-> IF p = "a/BUILD" THEN "dir" ELSE "file"]}

KeptDirSets == {{}, {"a"}, {".", "build/bazel"}}

OutDirs == {"", "out", "/mnt/out"}

\* strings.TrimSpace on the lines of a file: blank lines at either end go
RECURSIVE TrimSpace(_)
TrimSpace(lines) ==
    IF lines = <<>> THEN <<>>
    ELSE IF Head(lines) = "" THEN TrimSpace(Tail(lines))
    ELSE IF lines[Len(lines)] = "" THEN TrimSpace(SubSeq(lines, 1, Len(lines) - 1))
    ELSE lines

\* strings.Split(s, "\n"): the empty string splits into one empty string
Split(lines) == IF lines = <<>> THEN <<"">> ELSE lines

getExistingBazelRelatedFiles(lines) == Split(TrimSpace(lines))

\* os.Stat(shared.JoinPath(topDir, p)); the empty path is topDir itself
Stat(info, p) ==
    IF p = "" THEN "dir"
    ELSE IF p \in DOMAIN info THEN info[p]
    ELSE "error"

\* every Bazel-related file name taken for a build file
BuildFileNames_AnyBazelFile == {"BUILD", "BUILD.bazel", "rules.bzl"}

BuildFileNames == {"BUILD", "BUILD.bazel"}

\* Bp2BuildConversionAllowlist.ShouldKeepExistingBuildFileForDir
ShouldKeepExistingBuildFileForDir(kept, dir) == dir \in kept

\* getPathsToIgnoredBuildFiles(config, topDir, srcDirBazelFiles, verbose)
RECURSIVE getPathsToIgnoredBuildFiles(_, _, _)
getPathsToIgnoredBuildFiles(kept, info, srcDirBazelFiles) ==
    IF srcDirBazelFiles = <<>> THEN <<>>
    ELSE LET p == Head(srcDirBazelFiles)
             rest == getPathsToIgnoredBuildFiles(kept, info, Tail(srcDirBazelFiles))
         IN IF Stat(info, p) = "error" THEN rest
            ELSE IF Stat(info, p) = "dir" THEN rest
            ELSE IF Base(JoinPath(topDir, p)) \notin BuildFileNames THEN rest
            ELSE IF ShouldKeepExistingBuildFileForDir(kept, Dir(p)) THEN rest
            ELSE <<p>> \o rest

\* apiBuildFileExcludes: the finder list without the files api_bp2build keeps
RECURSIVE apiBuildFileExcludes(_)
apiBuildFileExcludes(srcs) ==
    IF srcs = <<>> THEN <<>>
    ELSE LET src == Head(srcs)
         IN (IF /\ src # "WORKSPACE"
                /\ src # "BUILD"
                /\ src # "BUILD.bazel"
                /\ ~HasPrefix(src, "build/bazel")
                /\ ~HasPrefix(src, "prebuilts/clang")
             THEN <<src>> ELSE <<>>)
            \o apiBuildFileExcludes(Tail(srcs))

bazelArtifacts ==
    <<"bazel-bin", "bazel-genfiles", "bazel-out", "bazel-testlogs",
      "bazel-" \o Base(topDir)>>

getTemporaryExcludes ==
    <<"external/autotest/venv/autotest_lib",
      "external/autotest/autotest_lib",
      "external/autotest/client/autotest_lib/client",
      "external/google-fruit/extras/bazel_root/third_party/fruit",
      "frameworks/compile/slang">>

\* the elements of a list
ToSet(list) == {list[i] : i \in DOMAIN list}

----------------------------------------------------------------------------
(* Steps *)

S(op, arg) == [op |-> op, arg |-> arg]

At(op) == status = "running" /\ todo # <<>> /\ Head(todo).op = op

Ran(op) == \E i \in DOMAIN trace : trace[i].op = op

\* a fatal condition that is logged without ending the process
Exit1_KeepsRunning(why) ==
    /\ status' = status
    /\ todo' = Tail(todo)
    /\ trace' = Append(trace, S("exit", why))

\* os.Exit(1) or panic: nothing more runs
Exit1(why) ==
    /\ status' = "failed"
    /\ todo' = <<>>
    /\ trace' = Append(trace, S("exit", why))

Advance ==
    /\ todo' = Tail(todo)
    /\ trace' = Append(trace, Head(todo))
    /\ status' = status

\* main checking the used environment before the chosen activity has run
mainSteps_EnvironmentFirst ==
    <<S("flag.Parse", ""), S("parseAvailableEnv", ""), S("newConfig", ""),
      S("main.setup", ""), S("writeUsedEnvironmentFile", ""),
      S("doChosenActivity", ""), S("writeMetrics", ""), S("main.return", "")>>

mainSteps ==
    <<S("flag.Parse", ""), S("parseAvailableEnv", ""), S("newConfig", ""),
      S("main.setup", ""), S("doChosenActivity", ""), S("writeMetrics", ""),
      S("writeUsedEnvironmentFile", ""), S("main.return", "")>>

NoConfig == [BuildMode |-> "none", env |-> NoEnvDeps, envDeps |-> NoEnvDeps,
             mixedBuildsSupport |-> FALSE, allowMissingDependencies |-> FALSE,
             ProductVariablesFileName |-> ""]

Init ==
    /\ todo = mainSteps
    /\ status = "running"
    /\ args = NoArgs
    /\ bp2buildMarker = ""
    /\ bazelQueryViewDir = ""
    /\ bazelApiBp2buildDir = ""
    /\ moduleGraphFile = ""
    /\ docFile = ""
    /\ availableEnvFile = ""
    /\ usedEnvFile = ""
    /\ cmdlineArgs = [ModuleListFile |-> "", OutFile |-> OutFileDefault,
                      BazelMode |-> FALSE, BazelModeDev |-> FALSE,
                      BazelModeStaging |-> FALSE]
    /\ availableEnv = NoEnvDeps
    /\ configuration = NoConfig
    /\ logDir = ""
    /\ extraNinjaDeps = <<>>
    /\ bootstrapDeps = <<>>
    /\ ninjaDeps = <<>>
    /\ hook = FALSE
    /\ finalOutputFile = ""
    /\ \/ fs \in InitialFiles /\ unreadable = {}
       \/ fs = UnreadableSnapshot /\ unreadable = {UsedEnvPath}
    /\ now = 1
    /\ trace = <<>>
    /\ srcTree = Paths
    /\ genTree = {"a", "a/b.txt"}
    /\ excludes = {}
    /\ forest = {}
    /\ plantedWith = <<>>
    /\ previous = {}
    /\ outDir = ""
    /\ bazelList = <<"BUILD", "a/BUILD", "build/bazel/BUILD">>
    /\ fileInfo = [p \in FinderPaths |-> "file"]
    /\ keptDirs = {"build/bazel"}
    /\ existingBazelRelatedFiles = <<>>
    /\ pathsToIgnoredBuildFiles = <<>>
    /\ excludeList = <<>>

----------------------------------------------------------------------------
(* main, up to the chosen activity *)

\* flag.Parse with the flags registered by init(): each flag sets the
\* variable it was registered with
ParseFlags(commandLines) ==
    /\ At("flag.Parse")
    /\ \E a \in commandLines :
        /\ args' = a
        /\ bp2buildMarker' = a.bp2build_marker
        /\ bazelQueryViewDir' = a.bazel_queryview_dir
        /\ bazelApiBp2buildDir' = a.bazel_api_bp2build_dir
        /\ moduleGraphFile' = a.module_graph_file
        /\ docFile' = a.soong_docs
        /\ availableEnvFile' = a.available_env
        /\ usedEnvFile' = a.used_env
        /\ outDir' = a.out
        /\ cmdlineArgs' = [cmdlineArgs EXCEPT
                !.ModuleListFile = ModuleListFile,
                !.BazelMode = a.bazel_mode \/ a.bazel_mode_staging,
                !.BazelModeDev = a.bazel_mode_dev]
    /\ Advance
    /\ UNCHANGED <<worldVars, availableEnv, configuration, logDir, extraNinjaDeps, bootstrapDeps,
                   ninjaDeps, hook, finalOutputFile, fs, now>>

\* parseAvailableEnv going on with some environment when no path was given
ParseAvailableEnv_NoPathTolerated ==
    /\ At("parseAvailableEnv")
    /\ \/ /\ availableEnvFile # ""
          /\ Exit1("error reading available environment file")
          /\ UNCHANGED availableEnv
       \/ /\ \E e \in AvailableEnvs : availableEnv' = e
          /\ Advance
    /\ UNCHANGED <<worldVars, args, flagVars, configuration, logDir, extraNinjaDeps, bootstrapDeps,
                   ninjaDeps, hook, finalOutputFile, fs, now>>

ParseAvailableEnv ==
    /\ At("parseAvailableEnv")
    /\ \/ /\ availableEnvFile = ""
          /\ Exit1("--available_env not set")
          /\ UNCHANGED availableEnv
       \/ /\ availableEnvFile # ""
          /\ \/ /\ Exit1("error reading available environment file")
                /\ UNCHANGED availableEnv
             \/ /\ \E e \in AvailableEnvs : availableEnv' = e
                /\ Advance
    /\ UNCHANGED <<worldVars, args, flagVars, configuration, logDir, extraNinjaDeps, bootstrapDeps,
                   ninjaDeps, hook, finalOutputFile, fs, now>>

BazelModes == {"BazelDevMode", "BazelProdMode", "BazelStagingMode"}

BuildModes == {"Bp2build", "GenerateQueryView", "ApiBp2build",
               "GenerateModuleGraph", "GenerateDocFile", "AnalysisNoBazel"}
              \cup BazelModes

\* newConfig testing the module graph path before the bp2build marker
SelectBuildMode_GraphFirst ==
    IF moduleGraphFile # "" THEN "GenerateModuleGraph"
    ELSE IF bp2buildMarker # "" THEN "Bp2build"
    ELSE IF bazelQueryViewDir # "" THEN "GenerateQueryView"
    ELSE IF bazelApiBp2buildDir # "" THEN "ApiBp2build"
    ELSE IF docFile # "" THEN "GenerateDocFile"
    ELSE IF cmdlineArgs.BazelModeDev THEN "BazelDevMode"
    ELSE IF cmdlineArgs.BazelMode THEN "BazelProdMode"
    ELSE IF cmdlineArgs.BazelModeStaging THEN "BazelStagingMode"
    ELSE "AnalysisNoBazel"

FlagParse == ParseFlags(CommandLines)

FlagParseAny == ParseFlags(ArgSets)

\* the if/else chain of newConfig
SelectBuildMode ==
    IF bp2buildMarker # "" THEN "Bp2build"
    ELSE IF bazelQueryViewDir # "" THEN "GenerateQueryView"
    ELSE IF bazelApiBp2buildDir # "" THEN "ApiBp2build"
    ELSE IF moduleGraphFile # "" THEN "GenerateModuleGraph"
    ELSE IF docFile # "" THEN "GenerateDocFile"
    ELSE IF cmdlineArgs.BazelModeDev THEN "BazelDevMode"
    ELSE IF cmdlineArgs.BazelMode THEN "BazelProdMode"
    ELSE IF cmdlineArgs.BazelModeStaging THEN "BazelStagingMode"
    ELSE "AnalysisNoBazel"

NewConfig ==
    /\ At("newConfig")
    /\ \/ /\ Exit1("android.NewConfig")
          /\ UNCHANGED configuration
       \/ /\ \E support \in (IF SelectBuildMode \in BazelModes THEN BOOLEAN ELSE {FALSE}) :
                configuration' =
                    [BuildMode |-> SelectBuildMode,
                     env |-> availableEnv,
                     envDeps |-> NoEnvDeps,
                     mixedBuildsSupport |-> support,
                     allowMissingDependencies |-> FALSE,
                     ProductVariablesFileName |-> JoinPath(soongOutDir, "soong.variables")]
          /\ Advance
    /\ UNCHANGED <<worldVars, args, flagVars, availableEnv, logDir, extraNinjaDeps, bootstrapDeps,
                   ninjaDeps, hook, finalOutputFile, fs, now>>

\* Config.IsMixedBuildsEnabled
IsMixedBuildsEnabled(c) == c.mixedBuildsSupport /\ c.BuildMode \in BazelModes

\* main between newConfig and doChosenActivity
MainSetup ==
    /\ At("main.setup")
    /\ extraNinjaDeps' = <<configuration.ProductVariablesFileName, usedEnvFile>>
    /\ LET c == Getenv(configuration, "ALLOW_MISSING_DEPENDENCIES")
       IN configuration' =
            [c EXCEPT !.allowMissingDependencies =
                (GetenvValue(c, "ALLOW_MISSING_DEPENDENCIES") = "true")]
    /\ logDir' = availableEnv["LOG_DIR"]
    /\ Advance
    /\ UNCHANGED <<worldVars, args, flagVars, availableEnv, bootstrapDeps, ninjaDeps, hook,
                   finalOutputFile, fs, now>>

----------------------------------------------------------------------------
(* What the collaborators report *)

RECURSIVE BlueprintFile(_)
BlueprintFile(i) == IF i <= 1 THEN "Android.bp" ELSE "a/" \o BlueprintFile(i - 1)

\* the paths bootstrap.RunBlueprint returns: the module list file it was
\* given and the first n blueprint files
PipelineDeps(n) == <<cmdlineArgs.ModuleListFile>> \o [i \in 1..n |-> BlueprintFile(i)]

ModulePaths == <<"Android.bp">>
GlobListFiles == <<"out/soong/globs/0.list">>
SymlinkForestDeps == <<".", "build">>
CodegenAdditionalNinjaDeps == <<"build/bazel/rules.bzl">>
BazelPaths == <<"WORKSPACE", "build/bazel/bazel.sh">>

----------------------------------------------------------------------------
(* The chosen activity as the list of calls it makes *)

\* bootstrap.RunBlueprint: load and resolve, the registered hook, build
\* actions, the build file; stopBefore cuts the list short
RunBlueprint(stopBefore) ==
    <<S("blueprint.load", stopBefore)>>
    \o (IF stopBefore = "StopBeforePrepareBuildActions" THEN <<>>
        ELSE <<S("blueprint.hook", ""), S("blueprint.PrepareBuildActions", "")>>
             \o (IF stopBefore = "StopBeforeWriteNinja" THEN <<>>
                 ELSE <<S("blueprint.WriteBuildFile", cmdlineArgs.OutFile)>>))
    \o <<S("blueprint.return", "")>>

\* runBp2Build without line 673
runBp2Build_NoAdditionalDeps ==
    <<S("appendExtraNinjaDeps", "")>>
    \o RunBlueprint("StopBeforePrepareBuildActions")
    \o <<S("writeBuildGlobsNinjaFile", ""),
         S("Codegen", ""),
         S("getExistingBazelRelatedFiles", ""),
         S("getPathsToIgnoredBuildFiles", ""),
         S("PlantSymlinkForest", ""),
         S("writeDepFile", bp2buildMarker),
         S("touch", JoinPath(topDir, bp2buildMarker)),
         S("writeBp2BuildMetrics", "")>>

\* runBp2Build touching the marker before the depfile is written
runBp2Build_TouchFirst ==
    <<S("appendExtraNinjaDeps", "")>>
    \o RunBlueprint("StopBeforePrepareBuildActions")
    \o <<S("writeBuildGlobsNinjaFile", ""),
         S("Codegen", ""),
         S("getExistingBazelRelatedFiles", ""),
         S("getPathsToIgnoredBuildFiles", ""),
         S("PlantSymlinkForest", ""),
         S("AdditionalNinjaDeps", ""),
         S("touch", JoinPath(topDir, bp2buildMarker)),
         S("writeDepFile", bp2buildMarker),
         S("writeBp2BuildMetrics", "")>>

runBp2Build ==
    <<S("appendExtraNinjaDeps", "")>>
    \o RunBlueprint("StopBeforePrepareBuildActions")
    \o <<S("writeBuildGlobsNinjaFile", ""),
         S("Codegen", ""),
         S("getExistingBazelRelatedFiles", ""),
         S("getPathsToIgnoredBuildFiles", ""),
         S("PlantSymlinkForest", ""),
         S("AdditionalNinjaDeps", ""),
         S("writeDepFile", bp2buildMarker),
         S("touch", JoinPath(topDir, bp2buildMarker)),
         S("writeBp2BuildMetrics", "")>>

\* runMixedModeBuild writing the depfile under the glob file's name
runMixedModeBuild_WrongKey ==
    <<S("SetBeforePrepareBuildActionsHook", "")>>
    \o RunBlueprint("DoEverything")
    \o <<S("appendExtraNinjaDeps", ""),
         S("readBazelPaths", ""),
         S("writeBuildGlobsNinjaFile", ""),
         S("writeDepFile", "build-globs.ninja")>>

\* runMixedModeBuild registering the hook after the pipeline has run
runMixedModeBuild_LateHook ==
    RunBlueprint("DoEverything")
    \o <<S("SetBeforePrepareBuildActionsHook", ""),
         S("appendExtraNinjaDeps", ""),
         S("readBazelPaths", ""),
         S("writeBuildGlobsNinjaFile", ""),
         S("writeDepFile", cmdlineArgs.OutFile)>>

\* runMixedModeBuild leaving the Bazel dependency list unread
runMixedModeBuild_NoBazelPaths ==
    <<S("SetBeforePrepareBuildActionsHook", "")>>
    \o RunBlueprint("DoEverything")
    \o <<S("appendExtraNinjaDeps", ""),
         S("writeBuildGlobsNinjaFile", ""),
         S("writeDepFile", cmdlineArgs.OutFile)>>

runMixedModeBuild ==
    <<S("SetBeforePrepareBuildActionsHook", "")>>
    \o RunBlueprint("DoEverything")
    \o <<S("appendExtraNinjaDeps", ""),
         S("readBazelPaths", ""),
         S("writeBuildGlobsNinjaFile", ""),
         S("writeDepFile", cmdlineArgs.OutFile)>>

apiWorkspaceMarkerFile == JoinPath(soongOutDir, "api_bp2build") \o ".marker"

\* runApiBp2build leaving out the dependencies main started with
runApiBp2build_NoExtraDeps ==
    <<S("ListModulePaths", "")>>
    \o RunBlueprint("StopBeforePrepareBuildActions")
    \o <<S("writeBuildGlobsNinjaFile", ""),
         S("createBazelWorkspace", JoinPath(topDir, bazelApiBp2buildDir)),
         S("AdditionalNinjaDeps", ""),
         S("CreateSoongInjectionFiles", ""),
         S("getExistingBazelRelatedFiles", ""),
         S("PlantSymlinkForest", ""),
         S("writeDepFile", apiWorkspaceMarkerFile),
         S("touch", JoinPath(topDir, apiWorkspaceMarkerFile)),
         S("return", apiWorkspaceMarkerFile)>>

runApiBp2build ==
    <<S("ListModulePaths", "")>>
    \o RunBlueprint("StopBeforePrepareBuildActions")
    \o <<S("appendExtraNinjaDeps", ""),
         S("writeBuildGlobsNinjaFile", ""),
         S("createBazelWorkspace", JoinPath(topDir, bazelApiBp2buildDir)),
         S("AdditionalNinjaDeps", ""),
         S("CreateSoongInjectionFiles", ""),
         S("getExistingBazelRelatedFiles", ""),
         S("PlantSymlinkForest", ""),
         S("writeDepFile", apiWorkspaceMarkerFile),
         S("touch", JoinPath(topDir, apiWorkspaceMarkerFile)),
         S("return", apiWorkspaceMarkerFile)>>

runQueryView(queryviewDir, queryviewMarker) ==
    <<S("createBazelWorkspace", JoinPath(topDir, queryviewDir)),
      S("touch", JoinPath(topDir, queryviewMarker))>>

\* doChosenActivity running the whole pipeline whatever the mode
StopBeforeOf_DoEverything(mode) == "DoEverything"

StopBeforeOf(mode) ==
    IF mode = "GenerateModuleGraph" THEN "StopBeforeWriteNinja"
    ELSE IF mode = "GenerateQueryView" \/ mode = "GenerateDocFile"
         THEN "StopBeforePrepareBuildActions"
    ELSE "DoEverything"

\* doChosenActivity writing the depfile of the module graph before the graph
doChosenActivity_FlushBeforeGraph(c) ==
    IF c.BuildMode = "Bp2build"
    THEN runBp2Build \o <<S("return", bp2buildMarker)>>
    ELSE IF IsMixedBuildsEnabled(c)
    THEN runMixedModeBuild \o <<S("return", cmdlineArgs.OutFile)>>
    ELSE IF c.BuildMode = "ApiBp2build"
    THEN runApiBp2build
    ELSE RunBlueprint(StopBeforeOf(c.BuildMode))
         \o <<S("appendExtraNinjaDeps", ""), S("writeBuildGlobsNinjaFile", "")>>
         \o (IF c.BuildMode = "GenerateQueryView"
             THEN runQueryView(bazelQueryViewDir, bazelQueryViewDir \o ".marker")
                  \o <<S("writeDepFile", bazelQueryViewDir \o ".marker"),
                       S("return", bazelQueryViewDir \o ".marker")>>
             ELSE IF c.BuildMode = "GenerateModuleGraph"
             THEN <<S("writeDepFile", moduleGraphFile),
                    S("writeJsonModuleGraphAndActions", moduleGraphFile),
                    S("return", moduleGraphFile)>>
             ELSE IF c.BuildMode = "GenerateDocFile"
             THEN <<S("writeDocs", JoinPath(topDir, docFile)),
                    S("writeDepFile", docFile),
                    S("return", docFile)>>
             ELSE <<S("writeDepFile", cmdlineArgs.OutFile),
                    S("return", cmdlineArgs.OutFile)>>)

doChosenActivity(c) ==
    IF c.BuildMode = "Bp2build"
    THEN runBp2Build \o <<S("return", bp2buildMarker)>>
    ELSE IF IsMixedBuildsEnabled(c)
    THEN runMixedModeBuild \o <<S("return", cmdlineArgs.OutFile)>>
    ELSE IF c.BuildMode = "ApiBp2build"
    THEN runApiBp2build
    ELSE RunBlueprint(StopBeforeOf(c.BuildMode))
         \o <<S("appendExtraNinjaDeps", ""), S("writeBuildGlobsNinjaFile", "")>>
         \o (IF c.BuildMode = "GenerateQueryView"
             THEN runQueryView(bazelQueryViewDir, bazelQueryViewDir \o ".marker")
                  \o <<S("writeDepFile", bazelQueryViewDir \o ".marker"),
                       S("return", bazelQueryViewDir \o ".marker")>>
             ELSE IF c.BuildMode = "GenerateModuleGraph"
             THEN <<S("writeJsonModuleGraphAndActions", moduleGraphFile),
                    S("writeDepFile", moduleGraphFile),
                    S("return", moduleGraphFile)>>
             ELSE IF c.BuildMode = "GenerateDocFile"
             THEN <<S("writeDocs", JoinPath(topDir, docFile)),
                    S("writeDepFile", docFile),
                    S("return", docFile)>>
             ELSE <<S("writeDepFile", cmdlineArgs.OutFile),
                    S("return", cmdlineArgs.OutFile)>>)

\* everything but the position, the exit status and the trace
dataVars == <<worldVars, args, flagVars, availableEnv, configuration, logDir,
              extraNinjaDeps, bootstrapDeps, ninjaDeps, hook, finalOutputFile, fs, now>>

DoChosenActivity ==
    /\ At("doChosenActivity")
    /\ todo' = doChosenActivity(configuration) \o Tail(todo)
    /\ trace' = Append(trace, Head(todo))
    /\ UNCHANGED <<status, dataVars>>

Return ==
    /\ At("return")
    /\ finalOutputFile' = Head(todo).arg
    /\ Advance
    /\ UNCHANGED <<worldVars, args, flagVars, availableEnv, configuration, logDir,
                   extraNinjaDeps, bootstrapDeps, ninjaDeps, hook, fs, now>>

----------------------------------------------------------------------------
(* Steps of the activities *)

\* a call that changes nothing the model tracks: it returns or it is fatal
Opaque(op) ==
    /\ At(op)
    /\ \/ Advance
       \/ Exit1(op)
    /\ UNCHANGED dataVars

AppendExtraNinjaDeps ==
    /\ At("appendExtraNinjaDeps")
    /\ ninjaDeps' = ninjaDeps \o extraNinjaDeps
    /\ Advance
    /\ UNCHANGED <<worldVars, args, flagVars, availableEnv, configuration, logDir,
                   extraNinjaDeps, bootstrapDeps, hook, finalOutputFile, fs, now>>

ListModulePaths ==
    /\ At("ListModulePaths")
    /\ \/ /\ extraNinjaDeps' = extraNinjaDeps \o ModulePaths
          /\ Advance
       \/ /\ Exit1("panic: ListModulePaths")
          /\ UNCHANGED extraNinjaDeps
    /\ UNCHANGED <<worldVars, args, flagVars, availableEnv, configuration, logDir,
                   bootstrapDeps, ninjaDeps, hook, finalOutputFile, fs, now>>

SetBeforePrepareBuildActionsHook ==
    /\ At("SetBeforePrepareBuildActionsHook")
    /\ hook' = TRUE
    /\ Advance
    /\ UNCHANGED <<worldVars, args, flagVars, availableEnv, configuration, logDir,
                   extraNinjaDeps, bootstrapDeps, ninjaDeps, finalOutputFile, fs, now>>

BlueprintLoad == Opaque("blueprint.load")

\* the registered hook runs InvokeBazel; without a hook nothing runs
BlueprintHook ==
    /\ At("blueprint.hook")
    /\ \/ /\ todo' = Tail(todo)
          /\ status' = status
          /\ trace' = Append(trace, S("blueprint.hook", IF hook THEN "InvokeBazel" ELSE ""))
       \/ /\ hook
          /\ status' = "failed"
          /\ todo' = <<>>
          /\ trace' = trace \o <<S("blueprint.hook", "InvokeBazel"), S("exit", "InvokeBazel")>>
    /\ UNCHANGED dataVars

BlueprintPrepareBuildActions == Opaque("blueprint.PrepareBuildActions")

BlueprintWriteBuildFile ==
    /\ At("blueprint.WriteBuildFile")
    /\ \/ /\ fs' = WriteFile(fs, JoinPath(topDir, Head(todo).arg), <<"# ninja">>, now)
          /\ now' = now + 1
          /\ Advance
       \/ /\ Exit1("blueprint.WriteBuildFile")
          /\ UNCHANGED <<fs, now>>
    /\ UNCHANGED <<worldVars, args, flagVars, availableEnv, configuration, logDir,
                   extraNinjaDeps, bootstrapDeps, ninjaDeps, hook, finalOutputFile>>

BlueprintReturn ==
    /\ At("blueprint.return")
    /\ \E n \in 0..MaxPipelineDeps :
        /\ bootstrapDeps' = PipelineDeps(n)
        /\ ninjaDeps' = ninjaDeps \o PipelineDeps(n)
    /\ Advance
    /\ UNCHANGED <<worldVars, args, flagVars, availableEnv, configuration, logDir,
                   extraNinjaDeps, hook, finalOutputFile, fs, now>>

WriteBuildGlobsNinjaFile ==
    /\ At("writeBuildGlobsNinjaFile")
    /\ ninjaDeps' = ninjaDeps \o GlobListFiles
    /\ Advance
    /\ UNCHANGED <<worldVars, args, flagVars, availableEnv, configuration, logDir,
                   extraNinjaDeps, bootstrapDeps, hook, finalOutputFile, fs, now>>

Codegen == Opaque("Codegen")

CreateBazelWorkspace == Opaque("createBazelWorkspace")

CreateSoongInjectionFiles == Opaque("CreateSoongInjectionFiles")

\* runBp2Build: excludes := bazelArtifacts(), outDir appended when it is
\* relative (outDir[0] of an empty outDir panics), then the finder's list
\* is read.  runApiBp2build: excludes := bazelArtifacts() and
\* apiBuildFileExcludes(), which reads the list and filters it
GetExistingBazelRelatedFiles ==
    /\ At("getExistingBazelRelatedFiles")
    /\ IF configuration.BuildMode = "Bp2build" /\ outDir = ""
       THEN /\ Exit1("panic: index out of range")
            /\ UNCHANGED <<existingBazelRelatedFiles, excludeList>>
       ELSE \/ /\ Exit1("Error determining existing Bazel-related files")
               /\ UNCHANGED <<existingBazelRelatedFiles, excludeList>>
            \/ /\ existingBazelRelatedFiles' = getExistingBazelRelatedFiles(bazelList)
               /\ excludeList' =
                    IF configuration.BuildMode = "Bp2build"
                    THEN bazelArtifacts
                         \o (IF Head(outDir) # "/" THEN <<outDir>> ELSE <<>>)
                    ELSE bazelArtifacts
                         \o apiBuildFileExcludes(getExistingBazelRelatedFiles(bazelList))
               /\ Advance
    /\ UNCHANGED <<unreadable, forestVars, bazelList, fileInfo, keptDirs,
                   pathsToIgnoredBuildFiles, args, flagVars, availableEnv, configuration,
                   logDir, extraNinjaDeps, bootstrapDeps, ninjaDeps, hook,
                   finalOutputFile, fs, now>>

\* its verbose argument is configuration.IsEnvTrue("BP2BUILD_VERBOSE"); the
\* paths it returns and the temporary excludes are appended to excludes
GetPathsToIgnoredBuildFiles ==
    /\ At("getPathsToIgnoredBuildFiles")
    /\ configuration' = Getenv(configuration, "BP2BUILD_VERBOSE")
    /\ pathsToIgnoredBuildFiles' =
            getPathsToIgnoredBuildFiles(keptDirs, fileInfo, existingBazelRelatedFiles)
    /\ excludeList' =
            excludeList
            \o getPathsToIgnoredBuildFiles(keptDirs, fileInfo, existingBazelRelatedFiles)
            \o getTemporaryExcludes
    /\ Advance
    /\ UNCHANGED <<unreadable, forestVars, bazelList, fileInfo, keptDirs,
                   existingBazelRelatedFiles, args, flagVars, availableEnv, logDir,
                   extraNinjaDeps, bootstrapDeps, ninjaDeps, hook, finalOutputFile,
                   fs, now>>

PlantSymlinkForest ==
    /\ At("PlantSymlinkForest")
    /\ \/ /\ ninjaDeps' = ninjaDeps \o SymlinkForestDeps
          /\ excludes' = ToSet(excludeList)
          /\ forest' = PlantForest(forest, srcTree, genTree, ToSet(excludeList))
          /\ plantedWith' = <<ToSet(excludeList)>>
          /\ previous' = forest
          /\ Advance
       \/ /\ Exit1("PlantSymlinkForest")
          /\ UNCHANGED <<ninjaDeps, excludes, forest, plantedWith, previous>>
    /\ UNCHANGED <<unreadable, excludeVars, srcTree, genTree, args, flagVars, availableEnv,
                   configuration, logDir, extraNinjaDeps, bootstrapDeps, hook,
                   finalOutputFile, fs, now>>

AdditionalNinjaDeps ==
    /\ At("AdditionalNinjaDeps")
    /\ ninjaDeps' = ninjaDeps \o CodegenAdditionalNinjaDeps
    /\ Advance
    /\ UNCHANGED <<worldVars, args, flagVars, availableEnv, configuration, logDir,
                   extraNinjaDeps, bootstrapDeps, hook, finalOutputFile, fs, now>>

ReadBazelPaths ==
    /\ At("readBazelPaths")
    /\ configuration' = Getenv(configuration, "BAZEL_DEPS_FILE")
    /\ \/ /\ ninjaDeps' = ninjaDeps \o BazelPaths
          /\ Advance
       \/ /\ Exit1("panic: Bazel deps file not found")
          /\ UNCHANGED ninjaDeps
    /\ UNCHANGED <<worldVars, args, flagVars, availableEnv, logDir, extraNinjaDeps, bootstrapDeps,
                   hook, finalOutputFile, fs, now>>

\* os.Create of the graph file, then of the actions file; either may fail
WriteJsonModuleGraphAndActions ==
    /\ At("writeJsonModuleGraphAndActions")
    /\ \E graphOk \in BOOLEAN, actionsOk \in BOOLEAN :
        LET f1 == IF graphOk
                  THEN WriteFile(fs, JoinPath(topDir, Head(todo).arg), <<>>, now)
                  ELSE fs
            f2 == IF actionsOk
                  THEN WriteFile(f1, JoinPath(topDir, moduleActionsFile), <<>>, now)
                  ELSE f1
        IN IF graphOk /\ actionsOk
           THEN /\ fs' = WriteFile(WriteFile(f2, JoinPath(topDir, Head(todo).arg),
                                             <<"{modules}">>, now),
                                   JoinPath(topDir, moduleActionsFile), <<"{actions}">>, now)
                /\ Advance
           ELSE /\ fs' = f2
                /\ Exit1("writeJsonModuleGraphAndActions")
    /\ now' = now + 1
    /\ UNCHANGED <<worldVars, args, flagVars, availableEnv, configuration, logDir,
                   extraNinjaDeps, bootstrapDeps, ninjaDeps, hook, finalOutputFile>>

WriteDocs ==
    /\ At("writeDocs")
    /\ \/ /\ fs' = WriteFile(fs, Head(todo).arg, <<"<html>">>, now)
          /\ now' = now + 1
          /\ Advance
       \/ /\ Exit1("error building Soong documentation")
          /\ UNCHANGED <<fs, now>>
    /\ UNCHANGED <<worldVars, args, flagVars, availableEnv, configuration, logDir,
                   extraNinjaDeps, bootstrapDeps, ninjaDeps, hook, finalOutputFile>>

\* deptools.WriteDepFile: "outputFile: deps"
DepFileContents(outputFile, deps) == <<outputFile, ":">> \o deps

DepFilePath(outputFile) == JoinPath(topDir, outputFile \o ".d")

WriteDepFile ==
    /\ At("writeDepFile")
    /\ \/ /\ fs' = WriteFile(fs, DepFilePath(Head(todo).arg),
                             DepFileContents(Head(todo).arg, ninjaDeps), now)
          /\ now' = now + 1
          /\ Advance
       \/ /\ Exit1("Error writing depfile")
          /\ UNCHANGED <<fs, now>>
    /\ UNCHANGED <<worldVars, args, flagVars, availableEnv, configuration, logDir,
                   extraNinjaDeps, bootstrapDeps, ninjaDeps, hook, finalOutputFile>>

Touch ==
    /\ At("touch")
    /\ \/ /\ fs' = TouchFile(fs, Head(todo).arg, now)
          /\ now' = now + 1
          /\ Advance
       \/ /\ Exit1("Error touching")
          /\ UNCHANGED <<fs, now>>
    /\ UNCHANGED <<worldVars, args, flagVars, availableEnv, configuration, logDir,
                   extraNinjaDeps, bootstrapDeps, ninjaDeps, hook, finalOutputFile>>

WriteBp2BuildMetrics ==
    /\ At("writeBp2BuildMetrics")
    /\ configuration' = Getenv(configuration, "LOG_DIR")
    /\ \/ /\ GetenvValue(configuration, "LOG_DIR") = ""
          /\ Exit1("Missing required env var for generating bp2build metrics: LOG_DIR")
       \/ /\ GetenvValue(configuration, "LOG_DIR") # ""
          /\ \/ Advance
             \/ Exit1("codegenMetrics.Write")
    /\ UNCHANGED <<worldVars, args, flagVars, availableEnv, logDir, extraNinjaDeps, bootstrapDeps,
                   ninjaDeps, hook, finalOutputFile, fs, now>>

----------------------------------------------------------------------------
(* main after the chosen activity *)

WriteMetrics ==
    /\ At("writeMetrics")
    /\ \/ /\ logDir = ""
          /\ Exit1("Missing required env var for generating soong metrics: LOG_DIR")
       \/ /\ logDir # ""
          /\ \/ Advance
             \/ Exit1("error writing soong_build metrics")
    /\ UNCHANGED dataVars

\* a failed os.ReadFile that is not treated as fatal
ReadFails_NotFatal(path) == FALSE

\* os.ReadFile failed and the error is not os.IsNotExist
ReadFails(path) == path \in unreadable

\* os.ReadFile succeeded and bytes.Equal(preexistingData, data)
SnapshotUnchanged_AlwaysRewrite(files, path, data) == FALSE

SnapshotUnchanged(files, path, data) ==
    path \in DOMAIN files /\ files[path].content = data

\* os.WriteFile of the snapshot, then touch of the final output file
WriteSnapshotThenTouch_TouchFirst(files, path, data, out, t) ==
    WriteFile(TouchFile(files, out, t), path, data, t + 1)

WriteSnapshotThenTouch(files, path, data, out, t) ==
    TouchFile(WriteFile(files, path, data, t), out, t + 1)

WriteUsedEnvironmentFile ==
    /\ At("writeUsedEnvironmentFile")
    /\ LET path == JoinPath(topDir, usedEnvFile)
           data == EnvFileContents(configuration.envDeps)
           out  == JoinPath(topDir, finalOutputFile)
       IN \/ /\ usedEnvFile = ""
             /\ Advance
             /\ UNCHANGED <<fs, now>>
          \/ /\ usedEnvFile # ""
             /\ ReadFails(path)
             /\ Exit1("error reading used environment file")
             /\ UNCHANGED <<fs, now>>
          \/ /\ usedEnvFile # ""
             /\ ~ReadFails(path)
             /\ SnapshotUnchanged(fs, path, data)
             /\ Advance
             /\ UNCHANGED <<fs, now>>
          \/ /\ usedEnvFile # ""
             /\ ~ReadFails(path)
             /\ ~SnapshotUnchanged(fs, path, data)
             /\ \/ /\ Exit1("error writing used environment file")
                   /\ UNCHANGED <<fs, now>>
                \/ /\ fs' = WriteFile(fs, path, data, now)
                   /\ now' = now + 1
                   /\ Exit1("Error touching")
                \/ /\ fs' = WriteSnapshotThenTouch(fs, path, data, out, now)
                   /\ now' = now + 2
                   /\ Advance
    /\ UNCHANGED <<worldVars, args, flagVars, availableEnv, configuration, logDir,
                   extraNinjaDeps, bootstrapDeps, ninjaDeps, hook, finalOutputFile>>

MainReturn ==
    /\ At("main.return")
    /\ status' = "done"
    /\ todo' = Tail(todo)
    /\ trace' = Append(trace, Head(todo))
    /\ UNCHANGED dataVars

----------------------------------------------------------------------------

Next ==
    \/ FlagParse
    \/ ParseAvailableEnv
    \/ NewConfig
    \/ MainSetup
    \/ DoChosenActivity
    \/ AppendExtraNinjaDeps
    \/ ListModulePaths
    \/ SetBeforePrepareBuildActionsHook
    \/ BlueprintLoad
    \/ BlueprintHook
    \/ BlueprintPrepareBuildActions
    \/ BlueprintWriteBuildFile
    \/ BlueprintReturn
    \/ WriteBuildGlobsNinjaFile
    \/ Codegen
    \/ CreateBazelWorkspace
    \/ CreateSoongInjectionFiles
    \/ GetExistingBazelRelatedFiles
    \/ GetPathsToIgnoredBuildFiles
    \/ PlantSymlinkForest
    \/ AdditionalNinjaDeps
    \/ ReadBazelPaths
    \/ WriteJsonModuleGraphAndActions
    \/ WriteDocs
    \/ WriteDepFile
    \/ Touch
    \/ WriteBp2BuildMetrics
    \/ Return
    \/ WriteMetrics
    \/ WriteUsedEnvironmentFile
    \/ MainReturn

Spec == Init /\ [][Next]_vars

\* mode selection alone, for every command line
NextModes ==
    \/ FlagParseAny
    \/ ParseAvailableEnv
    \/ NewConfig

SpecModes == Init /\ [][NextModes]_vars

\* the forest planner alone, for every pair of trees and every exclude list
InitForest ==
    /\ todo = <<>>
    /\ status = "running"
    /\ args = NoArgs
    /\ bp2buildMarker = ""
    /\ bazelQueryViewDir = ""
    /\ bazelApiBp2buildDir = ""
    /\ moduleGraphFile = ""
    /\ docFile = ""
    /\ availableEnvFile = ""
    /\ usedEnvFile = ""
    /\ cmdlineArgs = [ModuleListFile |-> "", OutFile |-> OutFileDefault,
                      BazelMode |-> FALSE, BazelModeDev |-> FALSE,
                      BazelModeStaging |-> FALSE]
    /\ availableEnv = NoEnvDeps
    /\ configuration = NoConfig
    /\ logDir = ""
    /\ extraNinjaDeps = <<>>
    /\ bootstrapDeps = <<>>
    /\ ninjaDeps = <<>>
    /\ hook = FALSE
    /\ finalOutputFile = ""
    /\ fs = NoFiles
    /\ unreadable = {}
    /\ now = 1
    /\ trace = <<>>
    /\ srcTree \in Trees
    /\ genTree \in Trees
    /\ excludes \in ExcludeSets
    /\ forest = {}
    /\ plantedWith = <<>>
    /\ previous = {}
    /\ outDir = ""
    /\ bazelList = <<>>
    /\ fileInfo = [p \in FinderPaths |-> "file"]
    /\ keptDirs = {}
    /\ existingBazelRelatedFiles = <<>>
    /\ pathsToIgnoredBuildFiles = <<>>
    /\ excludeList = <<>>

\* PlantSymlinkForest called with the generated root in the place of the
\* source root
Plant_RootsSwapped ==
    /\ forest' = PlantForest(forest, genTree, srcTree, excludes)
    /\ plantedWith' = <<excludes>>
    /\ previous' = forest
    /\ UNCHANGED <<todo, status, trace, unreadable, excludeVars, srcTree, genTree, excludes, args,
                   flagVars, availableEnv, configuration, logDir, extraNinjaDeps,
                   bootstrapDeps, ninjaDeps, hook, finalOutputFile, fs, now>>

\* one call of PlantSymlinkForest on the target root as the last call left it
Plant ==
    /\ forest' = PlantForest(forest, srcTree, genTree, excludes)
    /\ plantedWith' = <<excludes>>
    /\ previous' = forest
    /\ UNCHANGED <<todo, status, trace, unreadable, excludeVars, srcTree, genTree, excludes, args,
                   flagVars, availableEnv, configuration, logDir, extraNinjaDeps,
                   bootstrapDeps, ninjaDeps, hook, finalOutputFile, fs, now>>

\* the next run computes another exclude list
ChangeExcludes ==
    /\ \E x \in ExcludeSets : x # excludes /\ excludes' = x
    /\ UNCHANGED <<todo, status, trace, unreadable, excludeVars, srcTree, genTree, forest, plantedWith,
                   previous, args, flagVars, availableEnv, configuration, logDir,
                   extraNinjaDeps, bootstrapDeps, ninjaDeps, hook, finalOutputFile,
                   fs, now>>

NextForest ==
    \/ Plant
    \/ ChangeExcludes

SpecForest == InitForest /\ [][NextForest]_vars

\* the calls of runBp2Build and of runApiBp2build from the computation of
\* the excludes to the planting of the forest
excludeSteps(mode) ==
    IF mode = "Bp2build"
    THEN <<S("getExistingBazelRelatedFiles", ""),
           S("getPathsToIgnoredBuildFiles", ""),
           S("PlantSymlinkForest", "")>>
    ELSE <<S("getExistingBazelRelatedFiles", ""),
           S("PlantSymlinkForest", "")>>

\* the computation of the excludes alone, for every finder list, output
\* directory, state of the listed files and allowlist
InitExcludes ==
    /\ \E mode \in {"Bp2build", "ApiBp2build"} :
        /\ todo = excludeSteps(mode)
        /\ configuration =
                [BuildMode |-> mode,
                 env |-> [v \in EnvVars |-> ""],
                 envDeps |-> NoEnvDeps,
                 mixedBuildsSupport |-> FALSE,
                 allowMissingDependencies |-> FALSE,
                 ProductVariablesFileName |-> JoinPath(soongOutDir, "soong.variables")]
    /\ status = "running"
    /\ args = NoArgs
    /\ bp2buildMarker = ""
    /\ bazelQueryViewDir = ""
    /\ bazelApiBp2buildDir = ""
    /\ moduleGraphFile = ""
    /\ docFile = ""
    /\ availableEnvFile = ""
    /\ usedEnvFile = ""
    /\ cmdlineArgs = [ModuleListFile |-> ModuleListFile, OutFile |-> OutFileDefault,
                      BazelMode |-> FALSE, BazelModeDev |-> FALSE,
                      BazelModeStaging |-> FALSE]
    /\ availableEnv = [v \in EnvVars |-> ""]
    /\ logDir = ""
    /\ extraNinjaDeps = <<>>
    /\ bootstrapDeps = <<>>
    /\ ninjaDeps = <<>>
    /\ hook = FALSE
    /\ finalOutputFile = ""
    /\ fs = NoFiles
    /\ unreadable = {}
    /\ now = 1
    /\ trace = <<>>
    /\ srcTree = Paths
    /\ genTree = {"a", "a/b.txt"}
    /\ excludes = {}
    /\ forest = {}
    /\ plantedWith = <<>>
    /\ previous = {}
    /\ outDir \in OutDirs
    /\ bazelList \in BazelLists
    /\ fileInfo \in FileInfos
    /\ keptDirs \in KeptDirSets
    /\ existingBazelRelatedFiles = <<>>
    /\ pathsToIgnoredBuildFiles = <<>>
    /\ excludeList = <<>>

NextExcludes ==
    \/ GetExistingBazelRelatedFiles
    \/ GetPathsToIgnoredBuildFiles
    \/ PlantSymlinkForest

SpecExcludes == InitExcludes /\ [][NextExcludes]_vars

TypeOK ==
    /\ status \in {"running", "done", "failed"}
    /\ configuration.BuildMode \in BuildModes \cup {"none"}
    /\ now \in Nat

----------------------------------------------------------------------------
(* Properties *)

Range(seq) == {seq[i] : i \in DOMAIN seq}

Idx(op) == {i \in DOMAIN trace : trace[i].op = op}

IsPrefix(a, b) == Len(a) <= Len(b) /\ \A i \in DOMAIN a : a[i] = b[i]

Mode == configuration.BuildMode

\* the first mode flag given on the command line, in newConfig's order,
\* among the seven flags other than --bazel-mode-staging
AnyOfSeven(a) ==
    \/ a.bp2build_marker # ""
    \/ a.bazel_queryview_dir # ""
    \/ a.bazel_api_bp2build_dir # ""
    \/ a.module_graph_file # ""
    \/ a.soong_docs # ""
    \/ a.bazel_mode_dev
    \/ a.bazel_mode

FirstOfSeven(a) ==
    IF a.bp2build_marker # "" THEN "Bp2build"
    ELSE IF a.bazel_queryview_dir # "" THEN "GenerateQueryView"
    ELSE IF a.bazel_api_bp2build_dir # "" THEN "ApiBp2build"
    ELSE IF a.module_graph_file # "" THEN "GenerateModuleGraph"
    ELSE IF a.soong_docs # "" THEN "GenerateDocFile"
    ELSE IF a.bazel_mode_dev THEN "BazelDevMode"
    ELSE "BazelProdMode"

AnyPathFlag(a) ==
    \/ a.bp2build_marker # ""
    \/ a.bazel_queryview_dir # ""
    \/ a.bazel_api_bp2build_dir # ""
    \/ a.module_graph_file # ""
    \/ a.soong_docs # ""

\* C1: once the configuration exists its mode is one of the build modes; if
\* any of the seven flags bp2build-marker, queryview dir, api-export dir,
\* module-graph path, doc-file path, bazel-dev-mode, bazel-prod-mode is
\* given, the mode is that of the first given one in this order (so a path
\* flag overrides every bazel-mode flag); with no mode flag given at all the
\* mode is AnalysisNoBazel.
C1_ModeSelection ==
    Mode # "none" =>
        /\ Mode \in BuildModes
        /\ AnyOfSeven(args) => Mode = FirstOfSeven(args)
        /\ AnyPathFlag(args) => Mode \notin BazelModes
        /\ (~AnyOfSeven(args) /\ ~args.bazel_mode_staging) => Mode = "AnalysisNoBazel"

C1_Witness ==
    /\ Mode = "Bp2build"
    /\ args.module_graph_file # ""
    /\ args.bazel_mode_dev

\* C2: with --bazel-mode-staging given and no flag of higher priority given,
\* the selected mode is BazelStagingMode.
C2_StagingFlagSelectsStagingMode ==
    (Mode # "none" /\ args.bazel_mode_staging /\ ~AnyOfSeven(args))
        => Mode = "BazelStagingMode"

\* the output each mode's activity is about
ExpectedOutput ==
    IF Mode = "Bp2build" THEN args.bp2build_marker
    ELSE IF Mode = "GenerateQueryView" THEN args.bazel_queryview_dir \o ".marker"
    ELSE IF Mode = "ApiBp2build" THEN "out/soong/api_bp2build.marker"
    ELSE IF Mode = "GenerateModuleGraph" THEN args.module_graph_file
    ELSE IF Mode = "GenerateDocFile" THEN args.soong_docs
    ELSE "build.ninja"

\* C3: no run writes the depfile twice; a run that exits 0 wrote it exactly
\* once, keyed by the path doChosenActivity returned, which is the mode's
\* output (marker, graph file, doc file or ninja file), and the record on
\* disk names that path as its target.
C3_FlushOnceKeyedByOutput ==
    /\ Cardinality(Idx("writeDepFile")) <= 1
    /\ status = "done" =>
        /\ Cardinality(Idx("writeDepFile")) = 1
        /\ \A i \in Idx("writeDepFile") : trace[i].arg = finalOutputFile
        /\ finalOutputFile = ExpectedOutput
        /\ Exists(DepFilePath(finalOutputFile))
        /\ fs[DepFilePath(finalOutputFile)].content[1] = finalOutputFile

C3_Witness ==
    /\ status = "done"
    /\ IsMixedBuildsEnabled(configuration)
    /\ Exists(DepFilePath("build.ninja"))

\* the paths the depfile of the current mode has to list
C4_Required ==
    Range(bootstrapDeps) \cup Range(GlobListFiles)
    \cup {configuration.ProductVariablesFileName, usedEnvFile}
    \cup (IF Mode \in {"Bp2build", "ApiBp2build"}
          THEN Range(SymlinkForestDeps) \cup Range(CodegenAdditionalNinjaDeps)
          ELSE {})

C4_Flushed ==
    \A i \in Idx("writeDepFile") :
        C4_Required \subseteq Range(fs[DepFilePath(trace[i].arg)].content)

\* C4: the dependency list only ever grows at its end, and every depfile
\* written lists the paths returned by the pipeline, the glob list files and
\* the startup dependencies, and in Bp2build and ApiBp2build modes also the
\* directories the forest planner visited and the code generator's
\* additional paths.
C4_DependencyCompleteness ==
    [](C4_Flushed) /\ [][IsPrefix(ninjaDeps, ninjaDeps')]_vars

C4_Witness ==
    /\ status = "done"
    /\ Mode = "Bp2build"
    /\ Len(bootstrapDeps) >= 2
    /\ Exists(DepFilePath(finalOutputFile))

C5_Pre ==
    /\ At("writeUsedEnvironmentFile")
    /\ usedEnvFile # ""
    /\ Exists(JoinPath(topDir, usedEnvFile))
    /\ fs[JoinPath(topDir, usedEnvFile)].content = EnvFileContents(configuration.envDeps)

\* C5: when the used-environment file exists and holds exactly the freshly
\* serialized used set, the environment check changes no file: neither the
\* snapshot (content, modification time) nor the final output file.
C5_SnapshotStability == [][C5_Pre => fs' = fs]_vars

C5_Witness ==
    /\ status = "done"
    /\ usedEnvFile # ""
    /\ Exists(UsedEnvPath)
    /\ fs[UsedEnvPath].mtime = 0
    /\ fs[UsedEnvPath].content = EnvFileContents(configuration.envDeps)
    /\ Exists(JoinPath(topDir, finalOutputFile))

C6_Pre ==
    /\ At("writeUsedEnvironmentFile")
    /\ usedEnvFile # ""
    /\ \/ ~Exists(JoinPath(topDir, usedEnvFile))
       \/ fs[JoinPath(topDir, usedEnvFile)].content # EnvFileContents(configuration.envDeps)

\* C6: when the used-environment file is absent or holds something other
\* than the freshly serialized used set, an environment check that returns
\* has written the new content to it and has touched the final output file
\* afterwards: the output exists and is not older than the snapshot.
C6_ChangeDetection ==
    [][(C6_Pre /\ status' = "running") =>
        LET path == JoinPath(topDir, usedEnvFile)
            out  == JoinPath(topDir, finalOutputFile)
        IN /\ path \in DOMAIN fs'
           /\ fs'[path].content = EnvFileContents(configuration.envDeps)
           /\ fs'[path].mtime >= now
           /\ out \in DOMAIN fs'
           /\ fs'[out].mtime >= fs'[path].mtime]_vars

C6_Witness ==
    /\ status = "done"
    /\ usedEnvFile # ""
    /\ Exists(UsedEnvPath)
    /\ fs[UsedEnvPath].mtime >= 1
    /\ fs[JoinPath(topDir, finalOutputFile)].mtime > fs[UsedEnvPath].mtime

PipelineOps == {"blueprint.load", "blueprint.hook", "blueprint.PrepareBuildActions",
                "blueprint.WriteBuildFile", "blueprint.return"}

PhaseOf(op) ==
    IF op = "newConfig" THEN 1
    ELSE IF op \in PipelineOps THEN 2
    ELSE IF op = "writeDepFile" THEN 3
    ELSE IF op = "writeUsedEnvironmentFile" THEN 4
    ELSE 0

\* C7: in the order of the calls made, mode selection comes before the
\* pipeline, the pipeline has returned before the depfile is written, and
\* the depfile is written before the environment check; none of these is
\* made twice and none is made after a later one.
C7_PhaseOrdering ==
    /\ \A j \in DOMAIN trace :
        PhaseOf(trace[j].op) > 0 =>
            \A i \in 1..(j - 1) : PhaseOf(trace[i].op) <= PhaseOf(trace[j].op)
    /\ \A op \in {"newConfig", "blueprint.load", "blueprint.return",
                  "writeDepFile", "writeUsedEnvironmentFile"} :
        Cardinality(Idx(op)) <= 1
    /\ (At("blueprint.load") \/ Ran("blueprint.load")) => Ran("newConfig")
    /\ (At("writeDepFile") \/ Ran("writeDepFile")) => Ran("blueprint.return")
    /\ (At("writeUsedEnvironmentFile") \/ Ran("writeUsedEnvironmentFile"))
            => Ran("writeDepFile")

C7_Witness ==
    /\ status = "done"
    /\ Ran("writeUsedEnvironmentFile")
    /\ Mode = "GenerateModuleGraph"

InvokeBazelIdx ==
    {i \in DOMAIN trace : trace[i].op = "blueprint.hook" /\ trace[i].arg = "InvokeBazel"}

\* C8: the hook is registered only in a mixed build and, there, before the
\* pipeline starts; the external system is invoked at most once, before
\* build actions are prepared, and never outside a mixed build.
C8_MixedBuildHook ==
    /\ hook => IsMixedBuildsEnabled(configuration)
    /\ (At("blueprint.load") \/ Ran("blueprint.load"))
            => (hook <=> IsMixedBuildsEnabled(configuration))
    /\ Cardinality(InvokeBazelIdx) <= 1
    /\ \A i \in InvokeBazelIdx : \A j \in Idx("blueprint.PrepareBuildActions") : i < j
    /\ ~IsMixedBuildsEnabled(configuration) => InvokeBazelIdx = {}

C8_Witness ==
    /\ status = "done"
    /\ IsMixedBuildsEnabled(configuration)
    /\ InvokeBazelIdx # {}
    /\ Ran("blueprint.PrepareBuildActions")

\* call j produced the output named k
ProducedAt(k, j) ==
    \/ trace[j].op \in {"touch", "writeDocs"} /\ trace[j].arg = JoinPath(topDir, k)
    \/ trace[j].op \in {"writeJsonModuleGraphAndActions", "blueprint.WriteBuildFile"}
       /\ trace[j].arg = k

\* C9 as claimed: whenever a depfile is written, the output it is keyed by
\* has been produced by an earlier call of this run.
C9_OutputProducedBeforeFlush ==
    \A i \in Idx("writeDepFile") : \E j \in 1..(i - 1) : ProducedAt(trace[i].arg, j)

MarkerLastModes == {"Bp2build", "ApiBp2build"}

\* C9 amended: outside Bp2build and ApiBp2build modes the output is produced
\* before its depfile is written; in Bp2build and ApiBp2build modes the
\* marker is touched only after the depfile keyed by it has been written;
\* in every mode a run that exits 0 has produced the output.
C9_OutputAndFlushOrder ==
    /\ Mode \notin MarkerLastModes => C9_OutputProducedBeforeFlush
    /\ Mode \in MarkerLastModes =>
        \A j \in Idx("touch") :
            \E i \in 1..(j - 1) :
                /\ trace[i].op = "writeDepFile"
                /\ JoinPath(topDir, trace[i].arg) = trace[j].arg
    /\ status = "done" =>
        /\ Exists(JoinPath(topDir, finalOutputFile))
        /\ fs[JoinPath(topDir, finalOutputFile)].mtime >= 1

C9_Witness ==
    /\ status = "done"
    /\ Mode = "Bp2build"
    /\ Idx("touch") # {}
    /\ Exists(JoinPath(topDir, bp2buildMarker))

\* C10: a run that has failed has not touched the workspace marker.
C10_MarkerOnlyOnSuccess ==
    status = "failed" => Idx("touch") = {}

\* the used environment file has not been written by this run
UsedEnvUnwritten == Exists(UsedEnvPath) => fs[UsedEnvPath].mtime = 0

\* C11: a fatal condition in any phase ends the run as failed: the exit is
\* the last thing recorded, nothing is left to run and no step follows it;
\* when the run failed before the used environment check (at or before
\* writeMetrics), the used environment file has not been written and the
\* check has not touched the final output.
C11_FailStop ==
    /\ [](/\ \A i \in Idx("exit") :
                i = Len(trace) /\ status = "failed" /\ todo = <<>>
          /\ status = "failed" => Idx("exit") # {}
          /\ (status = "failed" /\ ~Ran("writeMetrics")) =>
                /\ ~Ran("writeUsedEnvironmentFile")
                /\ UsedEnvUnwritten)
    /\ [][status # "failed"]_vars

C11_Witness ==
    /\ status = "failed"
    /\ Ran("writeDepFile")
    /\ ~Ran("writeMetrics")
    /\ trace[Len(trace)].arg = "error writing soong_build metrics"
    /\ usedEnvFile # ""

AvailableEnvFailures ==
    {"--available_env not set", "error reading available environment file"}

AvailableEnvFailed ==
    \E i \in Idx("exit") : trace[i].arg \in AvailableEnvFailures

\* C12: when no available environment path was given the run fails at
\* parseAvailableEnv; a run that failed there, for a missing path or an
\* unreadable or malformed file, has selected no mode, has not started the
\* pipeline, and has written no file at all: no output, no depfile, no used
\* environment file.
C12_AvailableEnvRequired ==
    /\ (Ran("flag.Parse") /\ availableEnvFile = "" /\ ~At("parseAvailableEnv"))
            => AvailableEnvFailed
    /\ AvailableEnvFailed =>
        /\ status = "failed"
        /\ Mode = "none"
        /\ ~Ran("newConfig")
        /\ ~Ran("blueprint.load")
        /\ Idx("writeDepFile") = {}
        /\ \A p \in DOMAIN fs : fs[p].mtime = 0

C12_Witness ==
    /\ AvailableEnvFailed
    /\ availableEnvFile = ""
    /\ bp2buildMarker # ""
    /\ usedEnvFile # ""

\* C13: when writeUsedEnvironmentFile probes the previous snapshot, a
\* read failure other than "does not exist" ends the run as failed with no
\* file written or touched; a snapshot that does not exist is not a read
\* failure, and unless writing or touching fails the snapshot is then
\* written with the variables read in this run.
C13_PriorSnapshotProbe ==
    [][(At("writeUsedEnvironmentFile") /\ usedEnvFile # "") =>
        LET path == JoinPath(topDir, usedEnvFile)
            data == EnvFileContents(configuration.envDeps)
        IN /\ path \in unreadable =>
                /\ status' = "failed"
                /\ trace'[Len(trace')] = S("exit", "error reading used environment file")
                /\ fs' = fs
           /\ (path \notin unreadable /\ ~Exists(path)) =>
                /\ trace'[Len(trace')] # S("exit", "error reading used environment file")
                /\ status' = "running" =>
                    /\ path \in DOMAIN fs'
                    /\ fs'[path].content = data
                    /\ fs'[path].mtime >= 1
      ]_vars

C13_Witness ==
    /\ status = "failed"
    /\ Ran("writeMetrics")
    /\ trace[Len(trace)] = S("exit", "error reading used environment file")
    /\ UsedEnvPath \in unreadable

BazelFailures == {"InvokeBazel", "panic: Bazel deps file not found"}

\* C14: in a mixed build every depfile written follows the one invocation
\* of Bazel and lists every path of Bazel's dependency list; when the
\* invocation fails or the dependency list cannot be read the run has
\* failed, Bazel was invoked once and not again, and no depfile was written.
C14_MixedBuildDependencies ==
    /\ IsMixedBuildsEnabled(configuration) =>
        \A i \in Idx("writeDepFile") :
            /\ \E j \in InvokeBazelIdx : j < i
            /\ Range(BazelPaths) \subseteq Range(fs[DepFilePath(trace[i].arg)].content)
    /\ (\E i \in Idx("exit") : trace[i].arg \in BazelFailures) =>
        /\ status = "failed"
        /\ Cardinality(InvokeBazelIdx) = 1
        /\ Idx("writeDepFile") = {}
        /\ ~Exists(DepFilePath(cmdlineArgs.OutFile))

C14_Witness ==
    /\ status = "done"
    /\ IsMixedBuildsEnabled(configuration)
    /\ Exists(DepFilePath(cmdlineArgs.OutFile))
    /\ Range(BazelPaths) \subseteq Range(fs[DepFilePath(cmdlineArgs.OutFile)].content)

\* the calls of main.go that read a variable through configuration.Getenv
\* or configuration.IsEnvTrue, and the variable each reads
TrackedReads ==
    [op \in {"main.setup", "getPathsToIgnoredBuildFiles",
             "writeBp2BuildMetrics", "readBazelPaths"} |->
        CASE op = "main.setup" -> "ALLOW_MISSING_DEPENDENCIES"
          [] op = "getPathsToIgnoredBuildFiles" -> "BP2BUILD_VERBOSE"
          [] op = "writeBp2BuildMetrics" -> "LOG_DIR"
          [] op = "readBazelPaths" -> "BAZEL_DEPS_FILE"]

Queried ==
    {TrackedReads[trace[i].op] :
        i \in {j \in DOMAIN trace : trace[j].op \in DOMAIN TrackedReads}}

\* C15: after a run that exits 0 with a used environment file requested,
\* the file holds one line for each variable read through the configuration
\* during the run, with the value the run saw, and no other line; once the
\* used environment check has run no further variable is recorded.
C15_SnapshotIsWhatWasRead ==
    /\ []((status = "done" /\ usedEnvFile # "") =>
            /\ Exists(JoinPath(topDir, usedEnvFile))
            /\ fs[JoinPath(topDir, usedEnvFile)].content
                  = EnvFileContents([v \in Queried |-> availableEnv[v]])
            /\ DOMAIN configuration.envDeps = Queried)
    /\ [][Ran("writeUsedEnvironmentFile") =>
            configuration'.envDeps = configuration.envDeps]_vars

C15_Witness ==
    /\ status = "done"
    /\ usedEnvFile # ""
    /\ Mode = "Bp2build"
    /\ Queried = {"ALLOW_MISSING_DEPENDENCIES", "BP2BUILD_VERBOSE", "LOG_DIR"}
    /\ fs[UsedEnvPath].mtime >= 1

\* C16: LOG_DIR is never recorded as a read variable, and no used
\* environment file written by the run has a LOG_DIR line.
C16_LogDirNotTracked ==
    /\ "LOG_DIR" \notin DOMAIN configuration.envDeps
    /\ (Exists(UsedEnvPath) /\ fs[UsedEnvPath].mtime >= 1) =>
        \A v \in AvailableEnvs :
            ("LOG_DIR=" \o v["LOG_DIR"]) \notin Range(fs[UsedEnvPath].content)

\* C17: in every mode, every depfile written lists the used environment
\* file and the product variables file that main started with.
C17_StartupDependenciesFlushed ==
    \A i \in Idx("writeDepFile") :
        /\ Mode \in BuildModes
        /\ usedEnvFile \in Range(fs[DepFilePath(trace[i].arg)].content)
        /\ configuration.ProductVariablesFileName
                \in Range(fs[DepFilePath(trace[i].arg)].content)

C17_Witness ==
    /\ status = "done"
    /\ Mode = "ApiBp2build"
    /\ usedEnvFile # ""
    /\ configuration.ProductVariablesFileName # ""
    /\ Exists(DepFilePath(apiWorkspaceMarkerFile))

Covered(p, excl) == \E q \in excl : AtOrBeneath(p, q)

EntriesAt(f, p) == {e \in f : e.path = p}

\* what path p of forest f leads to: its own entry, or the same path in
\* the tree a linked directory above it points into, or nothing
Resolve(f, p) ==
    IF EntriesAt(f, p) # {} THEN (CHOOSE e \in EntriesAt(f, p) : TRUE).target
    ELSE IF p \in srcTree /\ \E q \in Ancestors(p) : Link(q, RealPath(q)) \in f
         THEN RealPath(p)
    ELSE IF p \in genTree /\ \E q \in Ancestors(p) : Link(q, GenPath(q)) \in f
         THEN GenPath(p)
    ELSE "none"

GenerationModes == {"Bp2build", "ApiBp2build", "GenerateQueryView",
                    "GenerateModuleGraph", "GenerateDocFile"}

\* C21: the pipeline is started once at most, and once in a run that exits
\* 0; it is started with DoEverything in AnalysisNoBazel and the Bazel
\* modes, with StopBeforeWriteNinja in GenerateModuleGraph mode and with
\* StopBeforePrepareBuildActions in Bp2build, ApiBp2build, GenerateQueryView
\* and GenerateDocFile modes; in these five modes the build file is not
\* written, and build actions are prepared only in GenerateModuleGraph mode.
C21_PipelineStopPoint ==
    /\ Cardinality(Idx("blueprint.load")) <= 1
    /\ status = "done" => Cardinality(Idx("blueprint.load")) = 1
    /\ \A i \in Idx("blueprint.load") :
        trace[i].arg =
            (IF Mode = "GenerateModuleGraph" THEN "StopBeforeWriteNinja"
             ELSE IF Mode \in GenerationModes THEN "StopBeforePrepareBuildActions"
             ELSE "DoEverything")
    /\ Mode \in GenerationModes =>
        /\ Idx("blueprint.WriteBuildFile") = {}
        /\ ~Exists(JoinPath(topDir, cmdlineArgs.OutFile))
        /\ Mode # "GenerateModuleGraph" => Idx("blueprint.PrepareBuildActions") = {}
    /\ (status = "done" /\ Mode \notin GenerationModes) =>
        Cardinality(Idx("blueprint.WriteBuildFile")) = 1

C21_Witness ==
    /\ status = "done"
    /\ Mode = "GenerateDocFile"
    /\ \E i \in Idx("blueprint.load") : trace[i].arg = "StopBeforePrepareBuildActions"

\* C22: getPathsToIgnoredBuildFiles returns, in the order of its input,
\* the input paths that os.Stat finds, that are not directories, that are
\* named BUILD or BUILD.bazel and whose directory the allowlist does not
\* keep, and nothing else; a path that cannot be stat'ed is left out and
\* the call always returns.
C22_IgnoredBuildFiles ==
    /\ [](Ran("getPathsToIgnoredBuildFiles") =>
            LET Ignored(p) ==
                    /\ p = "" \/ p \in DOMAIN fileInfo
                    /\ p # "" /\ fileInfo[p] # "dir"
                    /\ Base(p) \in {"BUILD", "BUILD.bazel"}
                    /\ Dir(p) \notin keptDirs
            IN /\ pathsToIgnoredBuildFiles
                    = SelectSeq(existingBazelRelatedFiles, Ignored)
               /\ \A i \in DOMAIN pathsToIgnoredBuildFiles :
                    Dir(pathsToIgnoredBuildFiles[i]) \notin keptDirs)
    /\ [][At("getPathsToIgnoredBuildFiles") => status' = "running"]_vars

C22_Witness ==
    /\ Ran("getPathsToIgnoredBuildFiles")
    /\ existingBazelRelatedFiles = <<"a/BUILD", "BUILD">>
    /\ "a/BUILD" \notin DOMAIN fileInfo
    /\ pathsToIgnoredBuildFiles = <<"BUILD">>

\* p names something inside the directory dir
UnderDir(p, dir) == HasPrefix(p, dir \o "/")

\* C23: in ApiBp2build mode the excludes computed from the finder list are
\* exactly its entries other than the WORKSPACE, BUILD and BUILD.bazel files
\* of the root and other than what lies under the directories build/bazel
\* and prebuilts/clang.
C23_ApiExcludes ==
    (configuration.BuildMode = "ApiBp2build" /\ Ran("getExistingBazelRelatedFiles")) =>
        ToSet(SubSeq(excludeList, Len(bazelArtifacts) + 1, Len(excludeList)))
            = {p \in ToSet(existingBazelRelatedFiles) :
                    /\ p \notin {"WORKSPACE", "BUILD", "BUILD.bazel"}
                    /\ ~UnderDir(p, "build/bazel")
                    /\ ~UnderDir(p, "prebuilts/clang")}

\* C24: every entry of the exclude list handed to the planner is a
\* non-empty relative path below the root, whatever the finder list and the
\* output directory are, and building the list never panics.
C24_ExcludesAreSubtrees ==
    /\ At("PlantSymlinkForest") =>
            \A i \in DOMAIN excludeList :
                /\ excludeList[i] \notin {"", "."}
                /\ Head(excludeList[i]) # "/"
    /\ \A i \in DOMAIN trace : trace[i] # S("exit", "panic: index out of range")

\* what touching path may change between two states of the file system:
\* the file exists afterwards, empty if it was absent and with its content
\* otherwise, and no file is newer than it
Touched(before, after, path) ==
    /\ path \in DOMAIN after
    /\ after[path].content = IF path \in DOMAIN before THEN before[path].content ELSE <<>>
    /\ \A q \in DOMAIN after : after[path].mtime >= after[q].mtime

\* C25: touch changes the existence and the modification time of its file
\* and nothing else: an absent file is created empty, an existing one keeps
\* its content, every other file is left alone, and no file is newer than
\* the touched one; so the final output touched after a new environment
\* snapshot keeps what was written to it.
C25_TouchFrame ==
    /\ [][(At("touch") /\ status' = "running") =>
            /\ Touched(fs, fs', Head(todo).arg)
            /\ DOMAIN fs' = DOMAIN fs \cup {Head(todo).arg}
            /\ \A q \in DOMAIN fs \ {Head(todo).arg} : fs'[q] = fs[q]]_vars
    /\ [][(At("writeUsedEnvironmentFile") /\ status' = "running" /\ fs' # fs) =>
            Touched(fs, fs', JoinPath(topDir, finalOutputFile))]_vars

C25_Witness ==
    LET out == JoinPath(topDir, finalOutputFile)
        env == JoinPath(topDir, usedEnvFile)
    IN /\ Ran("writeUsedEnvironmentFile")
       /\ out \in DOMAIN fs /\ env \in DOMAIN fs
       /\ fs[out].content # <<>>
       /\ fs[out].mtime > fs[env].mtime

====
